---------------------------- MODULE Spec2Model ----------------------------
(***************************************************************************)
(* asynctor.aio: the bounded gather engine (bulk_gather / gather), the     *)
(* task-group runner it builds on (map_group) and the capacity limiter;    *)
(* wait_for; start_tasks; and asynctor.tasks.ThreadGroup.                  *)
(*                                                                         *)
(* Spec: one call of bulk_gather.  The arguments of the call are           *)
(* chosen in Init; the work items are awaitables whose payload, once       *)
(* started, either returns its value or raises its own exception, at a     *)
(* moment the scheduler chooses.  The anyio task group is modelled by its  *)
(* documented behaviour: start_soon only schedules a child, the exit of    *)
(* the group waits for every child, a child's exception is recorded in     *)
(* completion order and cancels the group's scope, and a cancelled scope   *)
(* delivers cancellation to children that are suspended.  A child that was *)
(* already due in the same pass of the event loop, or whose item shields   *)
(* itself, still ends by itself after the scope was cancelled, so both     *)
(* ends stay possible for a running child of a cancelled scope.            *)
(*                                                                         *)
(* FairSpec: Spec under a fair event loop, for termination.                *)
(* SpecWait: one call of wait_for under a discrete clock.                  *)
(* SpecStart: one `async with start_tasks(...)` statement, with a          *)
(* cancellation of the enclosing scope arriving at any moment.             *)
(* SpecThreads: one `with ThreadGroup(...)` block, in thread mode and in   *)
(* pool mode, with and without a timeout.                                  *)
(***************************************************************************)
EXTENDS Integers, Sequences, FiniteSets

\* ------------------------------------------------------------------ bounds
MaxItems == 3
MaxBatch == 2
MaxTime == 3
MaxTasks == 2
MaxBody == 1
MaxCalls == 2
MaxWorkers == 2

\* ------------------------------------------------------------- data values
\* The placeholder of an empty result slot (None in the source).
None == 0
\* limit=None: the deprecated alias was not passed; limit=k is <<k>>.
NoLimit == <<>>
\* The value the i-th work item returns (never the placeholder).
Val(i) == i + 1
\* The exception the i-th work item raises; distinct per item.
Exc(i) == i + 1

Items == 0 .. (MaxItems - 1)
Tasks == 0 .. (MaxTasks - 1)
Calls == 1 .. MaxCalls
Terminated == {"done", "failed", "cancelled"}

VARIABLES
    coros,        \* number of work items the source holds
    is_seq,       \* TRUE: len(coros) works; FALSE: a generator
    arg_batch,    \* batch_size as passed by the caller
    limit,        \* limit as passed by the caller: NoLimit or <<k>>
    wait_last,
    raises,
    pc,           \* position of the bulk_gather coroutine
    total,        \* local `total`
    batch_size,   \* local `batch_size` (reassigned from limit)
    fixed,        \* results is a LengthFixedList
    results,      \* BulkGather._results
    todos,        \* buffer of the generator wave loop
    next,         \* number of items already pulled from the source
    status,       \* per item: idle, spawned, waiting, running, done, ...
    wave,         \* per item: number of the task group it was started in
    groups,       \* number of task groups opened so far
    borrowers,    \* items holding a token of the CapacityLimiter
    exceptions,   \* the open task group's collected exceptions (items)
    cancel_called,\* the open task group's scope was cancelled
    order,        \* history: the items in the order their tasks ended
    chosen,       \* history: the strategy BulkGather.run selected
    warned,       \* number of DeprecationWarnings emitted
    outcome,      \* "pending", "returned", "raised", "params_error"
    raised,       \* the exception re-raised to the caller, or None
    ret,          \* the tuple returned
    checkpoints,  \* history: the checkpoints bulk_gather itself awaited
    starts,       \* history, per item: how often its await began
    writes        \* history, per item: how often its slot was written

\* State of one call of wait_for (lines 317-320) and of a task that runs
\* beside it, outside its cancel scope.
VARIABLES
    timeout,      \* wait_for: the timeout argument, in clock ticks
    coro_time,    \* the moment the awaited item is due to end by itself
    coro_raises,  \* the awaited item ends by raising its own exception
    other_time,   \* the moment the task beside the call is due to end
    now,          \* the clock of the event loop
    wf_pc,        \* position of wait_for: idle, call, await, done
    deadline,     \* deadline of the fail_after scope
    wf_cancelled, \* the fail_after scope was cancelled by its deadline
    coro,         \* the awaited item: pending, running, done, failed, ...
    other,        \* the task beside the call: running, done, cancelled
    wf_outcome,   \* pending, returned, raised, timeout
    wf_ret        \* the value wait_for returned

\* State of one use of start_tasks (lines 289-314): the caller's task, which
\* enters the context manager, runs the guarded block and leaves, the
\* supplied tasks, the task group's scope and the caller's enclosing scope.
VARIABLES
    supplied,         \* number of tasks passed: coro and the items of more
    kind,             \* per task: "coro" (an awaitable) or "afunc"
    body_raises,      \* the guarded block ends by raising
    host,             \* position of the caller's task
    task_state,       \* per task: pending, scheduled, running, done, ...
    ran,              \* history: the tasks that performed a step
    body_done,        \* steps the guarded block has completed
    body_end,         \* how the guarded block ended
    tg_cancel_called, \* tg.cancel_scope was cancelled
    ext_cancel_called,\* the scope enclosing the caller was cancelled
    cancel_at,        \* history: where the caller was at that moment
    host_cancelled,   \* a cancellation was raised in the caller's task
    st_outcome        \* how the async with statement ended

\* State of one `with ThreadGroup(max_workers, timeout) as tg:` block
\* (tasks.py, lines 31-127) and of the functions it runs in threads.
VARIABLES
    max_workers,  \* ThreadGroup._max_workers; 0 selects plain threads
    has_timeout,  \* ThreadGroup._timeout is a number, not None
    calls,        \* number of soonify calls the block makes
    fn_raises,    \* per call: the function raises instead of returning
    th_pc,        \* position of the thread that runs the with block
    executor,     \* ThreadGroup._executor is set
    submitted,    \* number of soonify calls made so far
    fn_state,     \* per call: unsubmitted, queued, running, finished
    threads,      \* ThreadGroup._threads, as the calls that started them
    future_idx,   \* ThreadGroup._future_idx, keyed by the call
    tg_results,   \* ThreadGroup._results
    cursor,       \* the loop variable of the loops of __exit__
    handled,      \* the futures as_completed has yielded
    exit_raised   \* the exception that left __exit__, or "none"

bulk_vars == <<coros, is_seq, arg_batch, limit, wait_last, raises, pc, total,
               batch_size, fixed, results, todos, next, status, wave, groups,
               borrowers, exceptions, cancel_called, order, chosen, warned,
               outcome, raised, ret, checkpoints, starts, writes>>

wait_vars == <<timeout, coro_time, coro_raises, other_time, now, wf_pc,
               deadline, wf_cancelled, coro, other, wf_outcome, wf_ret>>

start_vars == <<supplied, kind, body_raises, host, task_state, ran,
                body_done,
                body_end, tg_cancel_called, ext_cancel_called, cancel_at,
                host_cancelled, st_outcome>>

thread_vars == <<max_workers, has_timeout, calls, fn_raises, th_pc, executor,
                 submitted, fn_state, threads, future_idx, tg_results,
                 cursor, handled, exit_raised>>

\* What a step of bulk_gather leaves alone.
others == <<wait_vars, start_vars, thread_vars>>

vars == <<bulk_vars, others>>

args == <<coros, is_seq, arg_batch, limit, wait_last, raises>>

\* ----------------------------------------------------------------- helpers
\* [None] * n
Repeat(x, n) == [k \in 1 .. n |-> x]

\* A slice that starts over at the first item.
range_from_start(lo, hi) == {i \in Items : i < hi}

\* todos of one group: the items lo .. hi-1
Range(lo, hi) == {i \in Items : lo <= i /\ i < hi}

Min(a, b) == IF a < b THEN a ELSE b

\* No call of bulk_gather is made.
BulkIdle ==
    /\ coros = 0
    /\ is_seq = TRUE
    /\ arg_batch = 0
    /\ limit = NoLimit
    /\ wait_last = FALSE
    /\ raises = TRUE
    /\ pc = "idle"
    /\ total = 0
    /\ batch_size = 0
    /\ fixed = FALSE
    /\ results = <<>>
    /\ todos = <<>>
    /\ next = 0
    /\ status = [i \in Items |-> "idle"]
    /\ wave = [i \in Items |-> 0]
    /\ groups = 0
    /\ borrowers = {}
    /\ exceptions = <<>>
    /\ cancel_called = FALSE
    /\ order = <<>>
    /\ chosen = "none"
    /\ warned = 0
    /\ outcome = "pending"
    /\ raised = None
    /\ ret = <<>>
    /\ checkpoints = 0
    /\ starts = [i \in Items |-> 0]
    /\ writes = [i \in Items |-> 0]

\* No call of wait_for is made.
WaitIdle ==
    /\ timeout = 0
    /\ coro_time = 0
    /\ coro_raises = FALSE
    /\ other_time = 0
    /\ now = 0
    /\ wf_pc = "idle"
    /\ deadline = 0
    /\ wf_cancelled = FALSE
    /\ coro = "pending"
    /\ other = "done"
    /\ wf_outcome = "pending"
    /\ wf_ret = None

\* No ThreadGroup is used.
ThreadIdle ==
    /\ max_workers = 0
    /\ has_timeout = FALSE
    /\ calls = 0
    /\ fn_raises = [i \in Calls |-> FALSE]
    /\ th_pc = "idle"
    /\ executor = FALSE
    /\ submitted = 0
    /\ fn_state = [i \in Calls |-> "unsubmitted"]
    /\ threads = <<>>
    /\ future_idx = <<>>
    /\ tg_results = <<>>
    /\ cursor = 0
    /\ handled = {}
    /\ exit_raised = "none"

\* start_tasks is not used.
StartIdle ==
    /\ supplied = 0
    /\ kind = [t \in Tasks |-> "afunc"]
    /\ body_raises = FALSE
    /\ host = "idle"
    /\ task_state = [t \in Tasks |-> "pending"]
    /\ ran = {}
    /\ body_done = 0
    /\ body_end = "none"
    /\ tg_cancel_called = FALSE
    /\ ext_cancel_called = FALSE
    /\ cancel_at = "none"
    /\ host_cancelled = FALSE
    /\ st_outcome = "pending"

Init ==
    /\ WaitIdle
    /\ StartIdle
    /\ ThreadIdle
    /\ coros \in 0 .. MaxItems
    /\ is_seq \in BOOLEAN
    /\ arg_batch \in 0 .. MaxBatch
    /\ limit \in {NoLimit} \cup {<<k>> : k \in 0 .. MaxBatch}
    /\ wait_last \in BOOLEAN
    /\ raises \in BOOLEAN
    /\ pc = "call"
    /\ total = 0
    /\ batch_size = arg_batch
    /\ fixed = FALSE
    /\ results = <<>>
    /\ todos = <<>>
    /\ next = 0
    /\ status = [i \in Items |-> "idle"]
    /\ wave = [i \in Items |-> 0]
    /\ groups = 0
    /\ borrowers = {}
    /\ exceptions = <<>>
    /\ cancel_called = FALSE
    /\ order = <<>>
    /\ chosen = "none"
    /\ warned = 0
    /\ outcome = "pending"
    /\ raised = None
    /\ ret = <<>>
    /\ checkpoints = 0
    /\ starts = [i \in Items |-> 0]
    /\ writes = [i \in Items |-> 0]

\* bulk_gather, lines 235-245: len(coros), the early return path, results.
bulk_gather_total ==
    /\ pc = "call"
    /\ IF is_seq
       THEN /\ total' = coros
            /\ IF coros = 0
               THEN /\ pc' = "checkpoint"
                    /\ UNCHANGED <<results, fixed>>
               ELSE /\ pc' = "limit"
                    /\ results' = Repeat(None, coros)
                    /\ fixed' = TRUE
       ELSE /\ total' = 0
            /\ results' = <<>>
            /\ fixed' = FALSE
            /\ pc' = "limit"
    /\ UNCHANGED <<others, starts, writes, checkpoints, args, batch_size,
                   todos, next, status, wave, groups, borrowers, exceptions,
                   cancel_called, order, chosen, warned, outcome, raised,
                   ret>>

\* A conflict check that lets a falsy limit pass.
conflict_truthy(b, l) == l # 0 /\ b # l

\* A conflict check that never fires.
conflict_never(b, l) == FALSE

\* bulk_gather, line 248: the two values contradict each other.
conflict(b, l) == b # l

\* The alias is dropped and batch_size stays 0.
alias_ignored(b, l) == b

\* bulk_gather, line 256: the deprecated alias takes the place of batch_size.
alias(b, l) == l

\* The warning is emitted twice.
warn_twice(w) == w + 2

\* bulk_gather, lines 250-254: warnings.warn(..., DeprecationWarning).
warn(w) == w + 1

\* bulk_gather, lines 246-256: the deprecated `limit` against `batch_size`.
bulk_gather_limit ==
    /\ pc = "limit"
    /\ IF limit # NoLimit
       THEN IF batch_size # 0
            THEN IF conflict(batch_size, limit[1])
                 THEN /\ outcome' = "params_error"
                      /\ pc' = "done"
                      /\ UNCHANGED <<warned, batch_size>>
                 ELSE /\ warned' = warn(warned)
                      /\ pc' = "run"
                      /\ UNCHANGED <<outcome, batch_size>>
            ELSE /\ batch_size' = alias(batch_size, limit[1])
                 /\ pc' = "run"
                 /\ UNCHANGED <<outcome, warned>>
       ELSE /\ pc' = "run"
            /\ UNCHANGED <<outcome, warned, batch_size>>
    /\ UNCHANGED <<others, starts, writes, checkpoints, args, total, fixed,
                   results, todos, next, status, wave, groups, borrowers,
                   exceptions, cancel_called, order, chosen, raised, ret>>

\* BulkGather.run, line 146.
is_generator == total = 0

\* Every capped call runs in waves, whatever wait_last says.
strategy_ignores_wait(b, w) == IF b = 0 THEN "unlimit" ELSE "wave"

\* BulkGather.run, lines 147-154: which of the three strategies runs.
strategy(b, w) ==
    IF b = 0 THEN "unlimit"
    ELSE IF ~w THEN "limiter"
    ELSE "wave"

\* BulkGather.run, lines 145-154.
run ==
    /\ pc = "run"
    /\ chosen' = strategy(batch_size, wait_last)
    /\ pc' = chosen'
    /\ UNCHANGED <<others, starts, writes, checkpoints, args, total,
                   batch_size, fixed, results, todos, next, status, wave,
                   groups, borrowers, exceptions, cancel_called, order,
                   warned, outcome, raised, ret>>

\* No placeholder is ever appended by map_group.
should_append_never(passed, is_fixed) == FALSE

\* map_group, line 125.
should_append(passed, is_fixed) == passed /\ ~is_fixed

\* map_group, lines 124-129: open a task group and start_soon one task per
\* element of grp; with a growable results list, one placeholder per element.
\* No task runs before the body of the group is over (there is no await in it).
map_group(grp, passed) ==
    /\ status' = [i \in Items |-> IF i \in grp THEN "spawned" ELSE status[i]]
    /\ wave' = [i \in Items |-> IF i \in grp THEN groups + 1 ELSE wave[i]]
    /\ groups' = groups + 1
    /\ exceptions' = <<>>
    /\ cancel_called' = FALSE
    /\ results' = IF should_append(passed, fixed)
                  THEN results \o Repeat(None, Cardinality(grp))
                  ELSE results

\* BulkGather.unlimit_gather, lines 156-160.
unlimit_gather ==
    /\ pc = "unlimit"
    /\ map_group(Range(0, coros), is_generator)
    /\ next' = coros
    /\ pc' = "join_tail"
    /\ UNCHANGED <<others, starts, writes, checkpoints, args, total,
                   batch_size, fixed, todos, borrowers, order, chosen, warned,
                   outcome, raised, ret>>

\* BulkGather.run_in_capacity_limiter, lines 162-168.
run_in_capacity_limiter ==
    /\ pc = "limiter"
    /\ borrowers' = {}
    /\ map_group(Range(0, coros), is_generator)
    /\ next' = coros
    /\ pc' = "join_tail"
    /\ UNCHANGED <<others, starts, writes, checkpoints, args, total,
                   batch_size, fixed, todos, order, chosen, warned, outcome,
                   raised, ret>>

\* The buffer is never dispatched inside the loop.
wave_never_full(count, b) == FALSE

\* only_start_new_one_after_last_batch_finish, line 178: the buffer is
\* dispatched when the running count is a multiple of batch_size.
wave_is_full(count, b) == count % b = 0

\* only_start_new_one_after_last_batch_finish, lines 175-180: one turn of
\* the generator loop; the item is buffered, a placeholder appended, and the
\* buffer dispatched as a group when wave_is_full.
wave_generator_pull ==
    /\ pc = "wave"
    /\ is_generator
    /\ next < coros
    /\ next' = next + 1
    /\ todos' = Append(todos, next)
    /\ IF wave_is_full(next, batch_size)
       THEN /\ status' = [i \in Items |->
                           IF \E k \in 1 .. Len(todos') : todos'[k] = i
                           THEN "spawned" ELSE status[i]]
            /\ wave' = [i \in Items |->
                           IF \E k \in 1 .. Len(todos') : todos'[k] = i
                           THEN groups + 1 ELSE wave[i]]
            /\ groups' = groups + 1
            /\ exceptions' = <<>>
            /\ cancel_called' = FALSE
            /\ pc' = "join"
       ELSE /\ pc' = "wave"
            /\ UNCHANGED <<status, wave, groups, exceptions, cancel_called>>
    /\ results' = Append(results, None)
    /\ UNCHANGED <<others, starts, writes, checkpoints, args, total,
                   batch_size, fixed, borrowers, order, chosen, warned,
                   outcome, raised, ret>>

\* only_start_new_one_after_last_batch_finish, lines 181-182: the source is
\* exhausted; what is left in the buffer is dispatched as a last group.
wave_generator_tail ==
    /\ pc = "wave"
    /\ is_generator
    /\ next >= coros
    /\ IF todos # <<>>
       THEN /\ map_group({todos[k] : k \in 1 .. Len(todos)}, FALSE)
            /\ pc' = "join_tail"
       ELSE /\ pc' = "return"
            /\ UNCHANGED <<status, wave, groups, exceptions, cancel_called,
                           results>>
    /\ UNCHANGED <<others, starts, writes, checkpoints, args, total,
                   batch_size, fixed, todos, next, borrowers, order, chosen,
                   warned, outcome, raised, ret>>

\* only_start_new_one_after_last_batch_finish, lines 184-187: the next
\* slice of a known-length sequence, or the end of the range.
wave_sequence ==
    /\ pc = "wave"
    /\ ~is_generator
    /\ IF next < total
       THEN /\ map_group(Range(next, Min(next + batch_size, total)), FALSE)
            /\ next' = Min(next + batch_size, total)
            /\ pc' = "join"
       ELSE /\ pc' = "return"
            /\ UNCHANGED <<status, wave, groups, exceptions, cancel_called,
                           results, next>>
    /\ UNCHANGED <<others, starts, writes, checkpoints, args, total,
                   batch_size, fixed, todos, borrowers, order, chosen, warned,
                   outcome, raised, ret>>

\* The tasks run through limited_runner (lines 139-143), not runner.
limited == strategy(batch_size, wait_last) = "limiter"

\* BulkGather.runner, lines 136-137: the task starts and awaits its item.
runner ==
    \E i \in Items :
        /\ status[i] = "spawned"
        /\ ~limited
        /\ status' = [status EXCEPT ![i] = "running"]
        /\ starts' = [starts EXCEPT ![i] = @ + 1]
        /\ UNCHANGED <<others, writes, checkpoints, args, pc, total,
                       batch_size, fixed, results, todos, next, wave, groups,
                       borrowers, exceptions, cancel_called, order, chosen,
                       warned, outcome, raised, ret>>

\* BulkGather.limited_runner, lines 139-142: the task starts and asks the
\* limiter for a token.
limited_runner ==
    \E i \in Items :
        /\ status[i] = "spawned"
        /\ limited
        /\ status' = [status EXCEPT ![i] = "waiting"]
        /\ UNCHANGED <<others, starts, writes, checkpoints, args, pc, total,
                       batch_size, fixed, results, todos, next, wave, groups,
                       borrowers, exceptions, cancel_called, order, chosen,
                       warned, outcome, raised, ret>>

\* A limiter that never hands out a token.
can_acquire_never(held, capacity) == FALSE

\* A limiter that admits the next task only when every token is back.
can_acquire_when_drained(held, capacity) == held = {}

\* A limiter that admits everybody.
can_acquire_always(held, capacity) == TRUE

\* anyio.CapacityLimiter(batch_size), line 163: a token is free.
can_acquire(held, capacity) == Cardinality(held) < capacity

\* limited_runner, line 142: `async with limiter` admits the task, which
\* then awaits its item.  A task of a cancelled scope is not admitted.
limiter_acquire ==
    \E i \in Items :
        /\ status[i] = "waiting"
        /\ ~cancel_called
        /\ can_acquire(borrowers, batch_size)
        /\ borrowers' = borrowers \cup {i}
        /\ status' = [status EXCEPT ![i] = "running"]
        /\ starts' = [starts EXCEPT ![i] = @ + 1]
        /\ UNCHANGED <<others, writes, checkpoints, args, pc, total,
                       batch_size, fixed, results, todos, next, wave, groups,
                       exceptions, cancel_called, order, chosen, warned,
                       outcome, raised, ret>>

\* The token stays with a task that has left the block.
release_never(held, i) == held

\* limited_runner, lines 142-143: leaving `async with limiter` gives the
\* token back, however the block is left.
release(held, i) == held \ {i}

\* The value goes to the first free slot: results in completion order.
store_first_free(res, index, value) ==
    LET k == CHOOSE k \in 1 .. Len(res) :
                 res[k] = None /\ \A j \in 1 .. (k - 1) : res[j] # None
    IN  [res EXCEPT ![k] = value]

\* runner, line 137 / limited_runner, line 143: self._results[index] = value.
store(res, index, value) == [res EXCEPT ![index + 1] = value]

\* runner, line 137 / limited_runner, line 143: the item returns, its value
\* is stored, and the limiter's token (if any) is given back.
payload_return ==
    \E i \in Items :
        /\ status[i] = "running"
        /\ status' = [status EXCEPT ![i] = "done"]
        /\ results' = store(results, i, Val(i))
        /\ writes' = [writes EXCEPT ![i] = @ + 1]
        /\ borrowers' = release(borrowers, i)
        /\ order' = Append(order, i)
        /\ UNCHANGED <<others, starts, checkpoints, args, pc, total,
                       batch_size, fixed, todos, next, wave, groups,
                       exceptions, cancel_called, chosen, warned, outcome,
                       raised, ret>>

\* runner, line 137 / limited_runner, line 143: the item raises.  The task
\* group records the exception (in the order the tasks end) and cancels its
\* scope; nothing is stored.
payload_raise ==
    \E i \in Items :
        /\ status[i] = "running"
        /\ status' = [status EXCEPT ![i] = "failed"]
        /\ exceptions' = Append(exceptions, i)
        /\ cancel_called' = TRUE
        /\ order' = Append(order, i)
        /\ borrowers' = release(borrowers, i)
        /\ UNCHANGED <<others, starts, writes, checkpoints, args, pc, total,
                       batch_size, fixed, results, todos, next, wave, groups,
                       chosen, warned, outcome, raised, ret>>

\* map_group, line 124: the cancelled scope of the task group reaches a
\* task that is suspended (waiting for the limiter or inside its item).
task_cancelled ==
    \E i \in Items :
        /\ cancel_called
        /\ status[i] \in {"waiting", "running"}
        /\ status' = [status EXCEPT ![i] = "cancelled"]
        /\ borrowers' = release(borrowers, i)
        /\ order' = Append(order, i)
        /\ UNCHANGED <<others, starts, writes, checkpoints, args, pc, total,
                       batch_size, fixed, results, todos, next, wave, groups,
                       exceptions, cancel_called, chosen, warned, outcome,
                       raised, ret>>

\* A group exit that leaves as soon as one child has failed.
exited_or_failed(st, grp) ==
    \/ \A i \in grp : st[i] \in Terminated
    \/ \E i \in grp : st[i] = "failed"

\* A group exit that waits for one child only.
any_exited(st, grp) == grp = {} \/ \E i \in grp : st[i] \in Terminated

\* map_group, line 124: the exit of `async with create_task_group()` waits
\* until every task of the group has ended.
all_exited(st, grp) == \A i \in grp : st[i] \in Terminated

\* The exit of a task group never raises.
group_never_fails(excs) == FALSE

\* map_group, line 124: the exit of the task group raises the collected
\* exceptions as one ExceptionGroup, which leaves map_group and the loop
\* that awaited it.
group_failed(excs) == excs # <<>>

\* The tasks of the task group that is open.
group == {i \in Items : wave[i] = groups /\ groups > 0}

\* map_group, lines 124-129 (exit): every child has ended; the collected
\* exceptions leave as one ExceptionGroup, otherwise the caller goes on
\* (the wave loops clear the buffer and take the next turn).
map_group_exit ==
    /\ pc \in {"join", "join_tail"}
    /\ all_exited(status, group)
    /\ IF group_failed(exceptions)
       THEN /\ pc' = "except"
            /\ UNCHANGED todos
       ELSE IF pc = "join"
            THEN /\ pc' = "wave"
                 /\ todos' = <<>>
            ELSE /\ pc' = "return"
                 /\ UNCHANGED todos
    /\ UNCHANGED <<others, starts, writes, checkpoints, args, total,
                   batch_size, fixed, results, next, status, wave, groups,
                   borrowers, exceptions, cancel_called, order, chosen,
                   warned, outcome, raised, ret>>

\* The exception group is re-raised whatever `raises` says.
always_reraise(r) == TRUE

\* bulk_gather, line 261.
should_reraise(r) == r

\* The exception of the failing item with the lowest index.
lowest_index_exception(excs) ==
    CHOOSE i \in {excs[k] : k \in 1 .. Len(excs)} :
        \A k \in 1 .. Len(excs) : i <= excs[k]

\* The exception that was recorded last.
last_exception(excs) == excs[Len(excs)]

\* bulk_gather, line 262: e.exceptions[0].
first_exception(excs) == excs[1]

\* bulk_gather, lines 260-262: except ExceptionGroup.
bulk_gather_except ==
    /\ pc = "except"
    /\ IF should_reraise(raises)
       THEN /\ raised' = Exc(first_exception(exceptions))
            /\ outcome' = "raised"
            /\ pc' = "done"
       ELSE /\ pc' = "return"
            /\ UNCHANGED <<raised, outcome>>
    /\ UNCHANGED <<others, starts, writes, checkpoints, args, total,
                   batch_size, fixed, results, todos, next, status, wave,
                   groups, borrowers, exceptions, cancel_called, order,
                   chosen, warned, ret>>

\* bulk_gather, line 263 and BulkGather.results, lines 189-191.
bulk_gather_return ==
    /\ pc = "return"
    /\ ret' = results
    /\ outcome' = "returned"
    /\ pc' = "done"
    /\ UNCHANGED <<others, starts, writes, checkpoints, args, total,
                   batch_size, fixed, results, todos, next, status, wave,
                   groups, borrowers, exceptions, cancel_called, order,
                   chosen, warned, raised>>

\* The early return that does not yield to the scheduler.
no_checkpoint(c) == c

\* bulk_gather, line 243: await checkpoint().
checkpoint(c) == c + 1

\* bulk_gather, lines 242-244: an empty sequence; one checkpoint, then ().
bulk_gather_checkpoint ==
    /\ pc = "checkpoint"
    /\ checkpoints' = checkpoint(checkpoints)
    /\ ret' = <<>>
    /\ outcome' = "returned"
    /\ pc' = "done"
    /\ UNCHANGED <<others, starts, writes, args, total, batch_size, fixed,
                   results, todos, next, status, wave, groups, borrowers,
                   exceptions, cancel_called, order, chosen, warned, raised>>

Next ==
    \/ bulk_gather_total
    \/ bulk_gather_checkpoint
    \/ bulk_gather_limit
    \/ run
    \/ unlimit_gather
    \/ run_in_capacity_limiter
    \/ wave_generator_pull
    \/ wave_generator_tail
    \/ wave_sequence
    \/ runner
    \/ limited_runner
    \/ limiter_acquire
    \/ payload_return
    \/ payload_raise
    \/ task_cancelled
    \/ map_group_exit
    \/ bulk_gather_except
    \/ bulk_gather_return

Spec == Init /\ [][Next]_vars

\* ------------------------------------------------------------------ claims
\* The items whose payload is being awaited.
Running == {i \in Items : status[i] = "running"}

\* The items whose payload raised.
Failed == {i \in Items : status[i] = "failed"}

\* The items of the source.
Source == Range(0, coros)

\* The items taken from the source: all of a sequence, and of a generator
\* those the engine has pulled.
Submitted == IF is_seq THEN coros ELSE next

\* The items whose payload raised, in the order they raised.
FailedInOrder == SelectSeq(order, LAMBDA i : status[i] = "failed")

\* The item whose payload raised first, or -1.
first_failed == IF FailedInOrder = <<>> THEN -1 ELSE FailedInOrder[1]

\* The place of item i in the order of task ends.
Pos(i) == CHOOSE k \in 1 .. Len(order) : order[k] = i

\* The call is the one gather(*coros, limit=...) makes (line 272).
IsGatherCall == is_seq /\ arg_batch = 0 /\ ~wait_last /\ raises

\* An empty known-length sequence: the early return of lines 242-244.
EmptySequence == is_seq /\ coros = 0

\* batch_size and limit both given, both truthy.
BothTruthy == limit # NoLimit /\ arg_batch # 0 /\ limit[1] # 0

\* C1: when bulk_gather returns normally the tuple has one slot per
\* submitted item, every item that returned has its value in its own slot,
\* no slot holds the value of another item, and when no item failed the
\* tuple is exactly the values in submission order, whatever the order in
\* which the items ended.
C1_OrderInvariant ==
    (outcome = "returned")
        => /\ Len(ret) = Submitted
           /\ \A i \in Items : status[i] = "done" => ret[i + 1] = Val(i)
           /\ \A k \in 1 .. Len(ret) : ret[k] # None => ret[k] = Val(k - 1)
           /\ Failed = {} => ret = [k \in 1 .. coros |-> Val(k - 1)]

\* C1 witness: three items ended in reverse order and the tuple is in
\* submission order.
C1_Witness ==
    /\ outcome = "returned"
    /\ order = <<2, 1, 0>>
    /\ ret = <<Val(0), Val(1), Val(2)>>

\* C2: under the limiter strategy the number of items running their payload
\* never exceeds batch_size.
C2_LimiterBound ==
    (chosen = "limiter")
        => /\ Cardinality(Running) <= batch_size
           /\ Cardinality(borrowers) <= batch_size

\* C2 witness: the limiter is full and another item is waiting for a token.
C2_Witness ==
    /\ chosen = "limiter"
    /\ Cardinality(Running) = batch_size
    /\ \E i \in Items : status[i] = "waiting"

\* C3: under the wave strategy, as soon as an item of a later wave has been
\* handed to its task group, every item of every earlier wave has completed.
C3_WaveBarrier ==
    (chosen = "wave")
        => \A i, j \in Items :
               (wave[i] > 0 /\ wave[j] > wave[i]) => status[i] = "done"

\* C3 witness: an item of the second wave is running.
C3_Witness ==
    /\ chosen = "wave"
    /\ \E i, j \in Items :
           wave[i] = 1 /\ wave[j] = 2 /\ status[j] = "running"

\* C4: with raises=False the call never re-raises an item's exception (and,
\* without `limit`, raises nothing at all); in the returned tuple the slot
\* of every failing item is None.
C4_SuppressionNeverRaises ==
    (~raises)
        => /\ outcome # "raised"
           /\ limit = NoLimit => outcome # "params_error"
           /\ outcome = "returned" =>
                  \A i \in Failed : i < Len(ret) /\ ret[i + 1] = None

\* C4 witness: a call with raises=False returned with one item failed and
\* another one completed.
C4_Witness ==
    /\ ~raises
    /\ outcome = "returned"
    /\ \E i, j \in Items : status[i] = "failed" /\ status[j] = "done"

\* C5 as claimed: when several siblings fail, the exception re-raised is
\* the one of the failing item with the lowest submission index.
C5_LowestIndexRaised ==
    (outcome = "raised" /\ Cardinality(Failed) >= 2)
        => \A i \in Failed : raised <= Exc(i)

\* C5 amended: when several siblings fail, the single exception re-raised
\* is the one of the item that failed first (completion order).
C5_FirstFailureRaised ==
    (outcome = "raised" /\ Cardinality(Failed) >= 2)
        => raised = Exc(first_failed)

\* C5 witness: two items failed, the one with the higher index first, and
\* its exception is the one re-raised.
C5_Witness ==
    /\ outcome = "raised"
    /\ Cardinality(Failed) >= 2
    /\ \E i \in Failed : Exc(i) < raised

\* C6: gather(*items) raises the exception of the item that fails earliest
\* in time, whatever its position in the argument list.
C6_GatherRaisesEarliest ==
    (IsGatherCall /\ outcome = "raised")
        => \E i \in Failed :
               /\ raised = Exc(i)
               /\ \A j \in Failed : Pos(i) <= Pos(j)

\* C6 witness: the test's case; the item at index 1 fails first, the other
\* two are cancelled, and gather raises the exception of index 1.
C6_Witness ==
    /\ IsGatherCall
    /\ coros = 3
    /\ outcome = "raised"
    /\ raised = Exc(1)
    /\ status[0] = "cancelled"
    /\ status[2] = "cancelled"

\* C7 as claimed: with raises=False every item of the source that does not
\* itself raise has its return value in its slot of the returned tuple.
C7_EveryItemCompletes ==
    (~raises /\ outcome = "returned")
        => \A i \in Source :
               status[i] # "failed" => (i < Len(ret) /\ ret[i + 1] = Val(i))

\* C8 as claimed: batch_size and limit both truthy and different end in
\* ParamsError whatever the source.
C8_ConflictAlwaysRaises ==
    (BothTruthy /\ limit[1] # arg_batch /\ pc = "done")
        => outcome = "params_error"

\* C8 amended: batch_size and limit both truthy and different end in
\* ParamsError for every source but the empty sequence, with no item ever
\* started; on an empty sequence the call returns () instead.
C8_ConflictRaisesUnlessEmpty ==
    (BothTruthy /\ limit[1] # arg_batch)
        => /\ \A i \in Items : status[i] = "idle"
           /\ pc \in {"call", "limit", "checkpoint", "done"}
           /\ pc = "done" =>
                  IF EmptySequence
                  THEN outcome = "returned" /\ ret = <<>>
                  ELSE outcome = "params_error"

\* C8 witness: ParamsError on a source that holds items.
C8_Witness ==
    /\ BothTruthy
    /\ limit[1] # arg_batch
    /\ coros > 0
    /\ outcome = "params_error"

C10_LimitAloneIsBatchSize ==
    (limit # NoLimit /\ arg_batch = 0)
        => /\ warned = 0
           /\ outcome # "params_error"
           /\ (pc \notin {"call", "limit"} /\ ~EmptySequence)
                  => batch_size = limit[1]
           /\ chosen \in {"none", strategy(limit[1], wait_last)}
           /\ limit[1] > 0 => Cardinality(Running) <= limit[1]

\* C10 witness: limit=1 alone on a generator; one item runs under the
\* limiter while another waits.
C10_Witness ==
    /\ limit = <<1>>
    /\ arg_batch = 0
    /\ ~is_seq
    /\ chosen = "limiter"
    /\ Cardinality(Running) = 1
    /\ \E i \in Items : status[i] = "waiting"

\* The items handed to a task group that have not ended yet.
InFlight == {i \in Items : status[i] \in {"spawned", "waiting", "running"}}

\* The tuple of all return values, in submission order.
AllValues == [k \in 1 .. coros |-> Val(k - 1)]

\* C11: bulk_gather on an empty known-length sequence returns () for every
\* combination of the other arguments, hands no item to any task group,
\* and awaits exactly one checkpoint before it returns.
C11_EmptySequenceReturnsEmpty ==
    EmptySequence
        => /\ \A i \in Items : status[i] = "idle"
           /\ groups = 0
           /\ outcome \in {"pending", "returned"}
           /\ checkpoints = (IF pc = "done" THEN 1 ELSE 0)
           /\ pc = "done" => (outcome = "returned" /\ ret = <<>>)

\* C11 witness: an empty sequence with a cap, wait_last and raises=False
\* returned () after its checkpoint.
C11_Witness ==
    /\ EmptySequence
    /\ arg_batch = 2
    /\ wait_last
    /\ ~raises
    /\ outcome = "returned"
    /\ ret = <<>>
    /\ checkpoints = 1

\* limit of gather as a cap: None and 0 both mean no cap.
GatherCap == IF limit = NoLimit THEN 0 ELSE limit[1]

\* C12: gather(*items, limit=k) runs as bulk_gather(items, batch_size=k,
\* wait_last=False, raises=True): batch_size becomes k without warning or
\* ParamsError, the limiter strategy is selected when k > 0 and keeps at
\* most k items running, no item waits for admission when k is None or 0,
\* and the call returns all values or raises the first failure.
C12_GatherIsBulkGather ==
    IsGatherCall
        => /\ warned = 0
           /\ outcome # "params_error"
           /\ (pc \notin {"call", "limit"} /\ ~EmptySequence)
                  => batch_size = GatherCap
           /\ chosen \in {"none",
                          IF GatherCap = 0 THEN "unlimit" ELSE "limiter"}
           /\ GatherCap > 0 => Cardinality(Running) <= GatherCap
           /\ GatherCap = 0 => \A i \in Items : status[i] # "waiting"
           /\ (chosen = "unlimit" /\ groups > 0)
                  => \A i \in Items : i < coros => status[i] # "idle"
           /\ outcome = "returned" => ret = AllValues
           /\ outcome = "raised" => raised = Exc(first_failed)

\* C12 witness: gather with limit=2 on three items; two run, one waits.
C12_Witness ==
    /\ IsGatherCall
    /\ limit = <<2>>
    /\ coros = 3
    /\ Cardinality(Running) = 2
    /\ \E i \in Items : status[i] = "waiting"

\* C18: under the wave strategy the number of items in flight never
\* exceeds batch_size, for a sequence and for a generator.
C18_WaveBound ==
    (chosen = "wave") => Cardinality(InFlight) <= batch_size

\* C18 witness: a generator under the wave strategy with a full wave of
\* batch_size = 2 items running.
C18_Witness ==
    /\ chosen = "wave"
    /\ ~is_seq
    /\ batch_size = 2
    /\ Cardinality(Running) = 2

\* C20: map_group neither returns nor raises while a task it started has
\* not ended: an item is in flight only while bulk_gather is inside the
\* exit of the task group, and the aggregate failure reaches bulk_gather
\* only when every sibling of the group has ended.
C20_GroupEndsAfterAllTasks ==
    /\ InFlight # {} => pc \in {"join", "join_tail"}
    /\ pc = "except" =>
           /\ exceptions # <<>>
           /\ \A i \in group : status[i] \in Terminated

\* C20 witness: the failure of one item is surfaced after a sibling that
\* ended later than the failure.
C20_Witness ==
    /\ pc = "except"
    /\ \E i, j \in group :
           /\ status[i] = "failed"
           /\ status[j] \in {"done", "cancelled"}
           /\ Pos(i) < Pos(j)

\* ---------------------------------------------------------------- wait_for
\* One call of wait_for(coro, timeout), made at time 0 while another task
\* of the same event loop runs outside the call.  The awaited item sleeps
\* until coro_time and then returns or raises; the clock does not pass a
\* moment at which something is due, and two things due at the same
\* moment happen in either order.

\* What a step of wait_for leaves alone.
outside_wait == <<bulk_vars, start_vars, thread_vars>>

WaitInit ==
    /\ BulkIdle
    /\ StartIdle
    /\ ThreadIdle
    /\ timeout \in 0 .. MaxTime
    /\ coro_time \in 0 .. MaxTime
    /\ coro_raises \in BOOLEAN
    /\ other_time \in 0 .. MaxTime
    /\ now = 0
    /\ wf_pc = "call"
    /\ deadline = 0
    /\ wf_cancelled = FALSE
    /\ coro = "pending"
    /\ other = "running"
    /\ wf_outcome = "pending"
    /\ wf_ret = None

\* Every running task is cancelled: the scope is not looked at.
in_scope_all(task) == TRUE

\* The tasks inside the fail_after scope of wait_for, lines 319-320: the
\* caller's task while it awaits the item, nothing else.
in_scope(task) == task = "coro"

\* What the delivery of a scope's cancellation makes of a task.
deliver(task, st) ==
    IF in_scope(task) /\ st = "running" THEN "cancelled" ELSE st

\* wait_for, lines 319-320: enter fail_after(timeout), start awaiting coro.
wait_for_enter ==
    /\ wf_pc = "call"
    /\ deadline' = now + timeout
    /\ coro' = "running"
    /\ wf_pc' = "await"
    /\ UNCHANGED <<outside_wait, timeout, coro_time, coro_raises, other_time,
                   now, wf_cancelled, other, wf_outcome, wf_ret>>

\* The event loop's clock moves on when nothing is due at this moment.
clock_tick ==
    /\ wf_pc \in {"await", "done"}
    /\ now < MaxTime
    /\ coro = "running" => now < coro_time
    /\ other = "running" => now < other_time
    /\ (wf_pc = "await" /\ ~wf_cancelled) => now < deadline
    /\ now' = now + 1
    /\ UNCHANGED <<outside_wait, timeout, coro_time, coro_raises, other_time,
                   wf_pc, deadline, wf_cancelled, coro, other, wf_outcome,
                   wf_ret>>

\* The awaited item ends by itself: it returns its value.
coro_return ==
    /\ coro = "running"
    /\ now >= coro_time
    /\ ~coro_raises
    /\ coro' = "done"
    /\ UNCHANGED <<outside_wait, timeout, coro_time, coro_raises, other_time,
                   now, wf_pc, deadline, wf_cancelled, other, wf_outcome,
                   wf_ret>>

\* The awaited item ends by itself: it raises its own exception.
coro_raise ==
    /\ coro = "running"
    /\ now >= coro_time
    /\ coro_raises
    /\ coro' = "failed"
    /\ UNCHANGED <<outside_wait, timeout, coro_time, coro_raises, other_time,
                   now, wf_pc, deadline, wf_cancelled, other, wf_outcome,
                   wf_ret>>

\* anyio.fail_after, line 319: the deadline is reached while the scope is
\* open; the scope is cancelled and the cancellation is delivered.
deadline_expire ==
    /\ wf_pc = "await"
    /\ ~wf_cancelled
    /\ now >= deadline
    /\ coro = "running"
    /\ wf_cancelled' = TRUE
    /\ coro' = deliver("coro", coro)
    /\ other' = deliver("other", other)
    /\ UNCHANGED <<outside_wait, timeout, coro_time, coro_raises, other_time,
                   now, wf_pc, deadline, wf_outcome, wf_ret>>

\* wait_for, lines 319-320: the await ended; the scope exit turns a caught
\* cancellation into TimeoutError, else the item's result or exception
\* leaves the call.
wait_for_exit ==
    /\ wf_pc = "await"
    /\ coro \in Terminated
    /\ wf_outcome' = CASE coro = "done" -> "returned"
                       [] coro = "failed" -> "raised"
                       [] coro = "cancelled" -> "timeout"
    /\ wf_ret' = IF coro = "done" THEN Val(0) ELSE None
    /\ wf_pc' = "done"
    /\ UNCHANGED <<outside_wait, timeout, coro_time, coro_raises, other_time,
                   now, deadline, wf_cancelled, coro, other>>

\* The task beside the call ends by itself.
other_finish ==
    /\ other = "running"
    /\ now >= other_time
    /\ other' = "done"
    /\ UNCHANGED <<outside_wait, timeout, coro_time, coro_raises, other_time,
                   now, wf_pc, deadline, wf_cancelled, coro, wf_outcome,
                   wf_ret>>

WaitNext ==
    \/ wait_for_enter
    \/ clock_tick
    \/ coro_return
    \/ coro_raise
    \/ deadline_expire
    \/ wait_for_exit
    \/ other_finish

SpecWait == WaitInit /\ [][WaitNext]_vars

\* C13: wait_for returns the item's result (or lets the item's own
\* exception through) when the item ends before the deadline; when the
\* deadline comes first the item is cancelled, stays cancelled, and
\* wait_for raises TimeoutError; a task outside the call is never
\* cancelled by it.
C13_WaitForDeadline ==
    /\ wf_outcome = "returned" => (coro = "done" /\ wf_ret = Val(0))
    /\ wf_outcome = "raised" => coro = "failed"
    /\ wf_outcome = "timeout" =>
           (coro = "cancelled" /\ wf_ret = None /\ now >= deadline)
    /\ (wf_pc = "done" /\ coro_time < timeout) =>
           wf_outcome = (IF coro_raises THEN "raised" ELSE "returned")
    /\ (wf_pc = "done" /\ timeout < coro_time) => wf_outcome = "timeout"
    /\ coro = "cancelled" => ~(now < deadline)
    /\ other # "cancelled"

\* C13 witness: the call timed out, the item is still cancelled later on
\* and the task beside the call ended by itself after the timeout.
C13_Witness ==
    /\ wf_outcome = "timeout"
    /\ coro = "cancelled"
    /\ now > deadline
    /\ other = "done"
    /\ other_time > timeout

\* ------------------------------------------------------------- start_tasks
\* One `async with start_tasks(coro, *more):` statement.  The caller's task
\* runs without a suspension point from the entry of the task group to the
\* yield (lines 306-312) and in the finally clause (lines 313-314); the
\* supplied tasks and every other task of the loop run only while the
\* caller's task is suspended, in the guarded block or in the exit of the
\* task group.  The scope that encloses the caller may be cancelled at any
\* moment (a request may come from another thread); the cancellation is
\* raised in a task only where that task is suspended and not shielded.

\* What a step of start_tasks leaves alone.
outside_start == <<bulk_vars, wait_vars, thread_vars>>

start_args == <<supplied, kind, body_raises>>

StartInit ==
    /\ BulkIdle
    /\ WaitIdle
    /\ ThreadIdle
    /\ supplied \in 1 .. MaxTasks
    /\ kind \in [Tasks -> {"coro", "afunc"}]
    /\ \A t \in Tasks : t >= supplied => kind[t] = "afunc"
    /\ body_raises \in BOOLEAN
    /\ host = "call"
    /\ task_state = [t \in Tasks |-> "pending"]
    /\ ran = {}
    /\ body_done = 0
    /\ body_end = "none"
    /\ tg_cancel_called = FALSE
    /\ ext_cancel_called = FALSE
    /\ cancel_at = "none"
    /\ host_cancelled = FALSE
    /\ st_outcome = "pending"

\* ensure_afunc, lines 59-67: an async function is returned as it is, an
\* awaitable is wrapped into the async function do_await.
ensure_afunc(k) == IF k = "afunc" THEN "afunc" ELSE "do_await"

\* What TaskGroup.start_soon accepts: something it can call.
callable(k) == k \in {"afunc", "do_await"}

\* The number of tasks handed to the task group so far.
handed == Cardinality({t \in Tasks : task_state[t] # "pending"})

\* The block is entered as soon as the first task was handed over.
first_started(h, n) == h >= 1

\* start_tasks, lines 308-310: coro and every item of more were handed over.
all_started(h, n) == h = n

\* Where the caller's task is suspended and other tasks can run: in the
\* guarded block (line 312) and in the exit of the task group (line 306).
suspended(h) == h \in {"body", "aexit"}

\* A shield that covers the startup step only.
shielded_startup_only(h) == h = "starting"

\* start_tasks, lines 307-314: the positions inside
\* `with anyio.CancelScope(shield=True)`.
shielded(h) == h \in {"starting", "body", "finally"}

\* A cancellation is raised wherever the caller's task is.
deliverable_anywhere(h) == h \in {"starting", "body", "aexit"}

\* Where a cancellation of the enclosing scope is raised in the caller.
deliverable(h) == suspended(h) /\ ~shielded(h)

\* The task group is left to end by itself.
no_cancel_on_exit(end) == FALSE

\* start_tasks, lines 313-314: finally: tg.cancel_scope.cancel().
cancel_on_exit(end) == TRUE

\* The scope the supplied tasks run in is cancelled: the task group's own
\* scope (line 306), or the caller's scope that encloses it.
scope_cancelled == tg_cancel_called \/ ext_cancel_called

\* The exit of the task group (line 306) has no child left to wait for.
all_ended == \A t \in Tasks : task_state[t] \notin {"scheduled", "running"}

\* A cancellation is due in the caller's task, and the await it is
\* suspended in ends by raising it: the enclosing scope was cancelled, or
\* the scope of the task group was (a supplied task raised) while the
\* caller is not yet in the exit of the group, which absorbs it.
cancel_due ==
    /\ ~host_cancelled
    /\ deliverable(host)
    /\ ext_cancel_called \/ (tg_cancel_called /\ host # "aexit")

\* start_tasks, lines 306-307: open the task group, enter the shield.
start_tasks_enter ==
    /\ host = "call"
    /\ host' = "starting"
    /\ UNCHANGED <<outside_start, start_args, task_state, ran, body_done,
                   body_end, tg_cancel_called, ext_cancel_called, cancel_at,
                   host_cancelled, st_outcome>>

\* start_tasks, lines 308-310: tg.start_soon(ensure_afunc(c)) for the next
\* task; start_soon raises TypeError for what it cannot call.
start_soon ==
    /\ host = "starting"
    /\ ~all_started(handed, supplied)
    /\ IF callable(ensure_afunc(kind[handed]))
       THEN /\ task_state' = [task_state EXCEPT ![handed] = "scheduled"]
            /\ UNCHANGED <<host, body_end, tg_cancel_called>>
       ELSE /\ host' = "aexit"
            /\ body_end' = "type_error"
            /\ tg_cancel_called' = TRUE
            /\ UNCHANGED task_state
    /\ UNCHANGED <<outside_start, start_args, ran, body_done,
                   ext_cancel_called, cancel_at, host_cancelled, st_outcome>>

\* start_tasks, lines 311-312: yield; the guarded block starts.
start_tasks_yield ==
    /\ host = "starting"
    /\ all_started(handed, supplied)
    /\ host' = "body"
    /\ UNCHANGED <<outside_start, start_args, task_state, ran, body_done,
                   body_end, tg_cancel_called, ext_cancel_called, cancel_at,
                   host_cancelled, st_outcome>>

\* The guarded block resumes from an await and runs to its next one.
body_step ==
    /\ host = "body"
    /\ ~cancel_due
    /\ body_done < MaxBody
    /\ body_done' = body_done + 1
    /\ UNCHANGED <<outside_start, start_args, host, task_state, ran,
                   body_end, tg_cancel_called, ext_cancel_called, cancel_at,
                   host_cancelled, st_outcome>>

\* The guarded block ends normally; control is back at line 312.
body_return ==
    /\ host = "body"
    /\ ~cancel_due
    /\ ~body_raises
    /\ body_end' = "returned"
    /\ host' = "finally"
    /\ UNCHANGED <<outside_start, start_args, task_state, ran, body_done,
                   tg_cancel_called, ext_cancel_called, cancel_at,
                   host_cancelled, st_outcome>>

\* The guarded block raises; the exception is thrown in at line 312.
body_raise ==
    /\ host = "body"
    /\ ~cancel_due
    /\ body_raises
    /\ body_end' = "raised"
    /\ host' = "finally"
    /\ UNCHANGED <<outside_start, start_args, task_state, ran, body_done,
                   tg_cancel_called, ext_cancel_called, cancel_at,
                   host_cancelled, st_outcome>>

\* start_tasks, lines 313-314: the finally clause cancels the task group;
\* the shield is left, the exit of the task group begins (an exception
\* that reaches the exit cancels the group's scope as well).
start_tasks_finally ==
    /\ host = "finally"
    /\ tg_cancel_called' = (tg_cancel_called \/ cancel_on_exit(body_end)
                               \/ body_end # "returned")
    /\ host' = "aexit"
    /\ UNCHANGED <<outside_start, start_args, task_state, ran, body_done,
                   body_end, ext_cancel_called, cancel_at, host_cancelled,
                   st_outcome>>

\* A task handed to the group is started by the event loop.
task_start(t) ==
    /\ suspended(host)
    /\ task_state[t] = "scheduled"
    /\ task_state' = [task_state EXCEPT ![t] = "running"]
    /\ UNCHANGED <<outside_start, start_args, host, ran, body_done,
                   body_end, tg_cancel_called, ext_cancel_called, cancel_at,
                   host_cancelled, st_outcome>>

\* A supplied task resumes from an await and runs to its next one.
task_step(t) ==
    /\ suspended(host)
    /\ task_state[t] = "running"
    /\ ran' = ran \cup {t}
    /\ UNCHANGED <<outside_start, start_args, host, task_state, body_done,
                   body_end, tg_cancel_called, ext_cancel_called, cancel_at,
                   host_cancelled, st_outcome>>

\* A supplied task ends by itself.
task_return(t) ==
    /\ suspended(host)
    /\ task_state[t] = "running"
    /\ task_state' = [task_state EXCEPT ![t] = "done"]
    /\ UNCHANGED <<outside_start, start_args, host, ran, body_done,
                   body_end, tg_cancel_called, ext_cancel_called, cancel_at,
                   host_cancelled, st_outcome>>

\* A supplied task raises: the task group records the exception and
\* cancels its own scope.
task_raise(t) ==
    /\ suspended(host)
    /\ task_state[t] = "running"
    /\ task_state' = [task_state EXCEPT ![t] = "failed"]
    /\ tg_cancel_called' = TRUE
    /\ UNCHANGED <<outside_start, start_args, host, ran, body_done, body_end,
                   ext_cancel_called, cancel_at, host_cancelled, st_outcome>>

\* The cancellation of its scope is raised in a supplied task.
task_cancel(t) ==
    /\ suspended(host)
    /\ scope_cancelled
    /\ task_state[t] = "running"
    /\ task_state' = [task_state EXCEPT ![t] = "cancelled"]
    /\ UNCHANGED <<outside_start, start_args, host, ran, body_done,
                   body_end, tg_cancel_called, ext_cancel_called, cancel_at,
                   host_cancelled, st_outcome>>

\* The scope that encloses the caller is cancelled from outside.
external_cancel ==
    /\ host \in {"call", "starting", "body", "finally", "aexit"}
    /\ ~ext_cancel_called
    /\ ext_cancel_called' = TRUE
    /\ cancel_at' = host
    /\ UNCHANGED <<outside_start, start_args, host, task_state, ran,
                   body_done, body_end, tg_cancel_called, host_cancelled,
                   st_outcome>>

\* A cancellation that is due is raised in the caller's task:
\* before the try statement it leaves through the exit of the task group,
\* in the guarded block it is thrown in at the yield, in the exit of the
\* task group it cancels the group and the exit goes on waiting.
host_cancel ==
    /\ cancel_due
    /\ host_cancelled' = TRUE
    /\ host' = (IF host = "body" THEN "finally" ELSE "aexit")
    /\ body_end' = (IF host = "body" THEN "cancelled" ELSE body_end)
    /\ tg_cancel_called' = (IF host = "body" THEN tg_cancel_called ELSE TRUE)
    /\ UNCHANGED <<outside_start, start_args, task_state, ran, body_done,
                   ext_cancel_called, cancel_at, st_outcome>>

\* start_tasks, line 306: the exit of the task group ends once every child
\* has ended; exceptions leave as a group, else a cancellation of the
\* enclosing scope, else the statement ends normally.
start_tasks_exit ==
    /\ host = "aexit"
    /\ all_ended
    /\ host' = "exited"
    /\ st_outcome' =
           (IF body_end \in {"raised", "type_error"}
               \/ \E t \in Tasks : task_state[t] = "failed"
            THEN "raised"
            ELSE IF host_cancelled THEN "cancelled" ELSE "returned")
    /\ UNCHANGED <<outside_start, start_args, task_state, ran, body_done,
                   body_end, tg_cancel_called, ext_cancel_called, cancel_at,
                   host_cancelled>>

StartNext ==
    \/ start_tasks_enter
    \/ start_soon
    \/ start_tasks_yield
    \/ body_step
    \/ body_return
    \/ body_raise
    \/ start_tasks_finally
    \/ \E t \in Tasks : task_start(t)
    \/ \E t \in Tasks : task_step(t)
    \/ \E t \in Tasks : task_return(t)
    \/ \E t \in Tasks : task_raise(t)
    \/ \E t \in Tasks : task_cancel(t)
    \/ external_cancel
    \/ host_cancel
    \/ start_tasks_exit

SpecStart == StartInit /\ [][StartNext]_vars

\* The tasks passed to start_tasks.
Supplied == {t \in Tasks : t < supplied}

\* C14: every exit of start_tasks, after a normal return or an exception
\* of the guarded block, cancels the task group, and the statement is left
\* only when every supplied task has ended: back in the caller no
\* supplied task is scheduled or running.
C14_ExitCancelsAndJoins ==
    /\ host \in {"aexit", "exited"} => tg_cancel_called
    /\ host = "exited" =>
           /\ body_end \in {"returned", "raised"}
           /\ st_outcome # "pending"
           /\ \A t \in Supplied : task_state[t] \in Terminated

\* C14 witness: the guarded block returned normally, a task that had run
\* beside it was cancelled on exit, and the statement ended normally.
C14_Witness ==
    /\ host = "exited"
    /\ body_end = "returned"
    /\ st_outcome = "returned"
    /\ ~ext_cancel_called
    /\ \E t \in Supplied : t \in ran /\ task_state[t] = "cancelled"

\* C15: when the guarded block runs, every supplied task, an awaitable or
\* an async function alike, has been handed to the task group; none is
\* handed over later, and a task takes steps only while the caller is in
\* the guarded block or in the exit.
C15_AllHandedBeforeBody ==
    /\ (host \in {"body", "finally"} \/ body_done > 0)
           => \A t \in Supplied : task_state[t] # "pending"
    /\ host \in {"call", "starting"}
           => \A t \in Tasks : task_state[t] \in {"pending", "scheduled"}
    /\ \A t \in Tasks : t \notin Supplied => task_state[t] = "pending"

\* C15 witness: an awaitable and an async function both run and have taken
\* steps while the guarded block is executing and has taken a step.
C15_Witness ==
    /\ host = "body"
    /\ body_done >= 1
    /\ supplied = 2
    /\ kind[0] = "coro"
    /\ kind[1] = "afunc"
    /\ ran = Supplied
    /\ \A t \in Supplied : task_state[t] = "running"

\* C16: a cancellation of the enclosing scope that arrives while the
\* guarded block is executing is raised in the guarded block: the block
\* does not end by itself afterwards.
C16_CancelReachesBody ==
    cancel_at = "body" => body_end \in {"none", "cancelled"}

\* C17: a cancellation requested during the entry never leaves a torn
\* set: once the entry is over, none or all of the supplied tasks have
\* been handed to the task group.
C17_NoTornSet ==
    host \notin {"call", "starting"} => handed \in {0, supplied}

\* C17 witness: the enclosing scope was cancelled between the two
\* start_soon calls, and both tasks were handed over.
C17_Witness ==
    /\ cancel_at = "starting"
    /\ supplied = 2
    /\ handed = 2
    /\ host = "body"

\* ------------------------------------------------------------- ThreadGroup
\* One `with ThreadGroup(max_workers, timeout) as tg:` block whose body
\* makes `calls` soonify calls.  A function runs in its thread for as long
\* as it likes; a wait with a timeout ends when what it waits for has
\* happened, or, when a timeout was given, because the time is up.

\* What a step of the ThreadGroup leaves alone.
outside_threads == <<bulk_vars, wait_vars, start_vars>>

thread_args == <<max_workers, has_timeout, calls, fn_raises>>

\* The entries of ThreadGroup.results.
NoneSlot == <<"None", 0>>
Returned(i) == <<"value", i>>
Raised(i) == <<"exception", i>>
TimeoutError(i) == <<"TimeoutError", i>>

ThreadInit ==
    /\ BulkIdle
    /\ WaitIdle
    /\ StartIdle
    /\ max_workers \in 0 .. MaxWorkers
    /\ has_timeout \in BOOLEAN
    /\ calls \in 0 .. MaxCalls
    /\ fn_raises \in [Calls -> BOOLEAN]
    /\ \A i \in Calls : i > calls => ~fn_raises[i]
    /\ th_pc = "enter"
    /\ executor = FALSE
    /\ submitted = 0
    /\ fn_state = [i \in Calls |-> "unsubmitted"]
    /\ threads = <<>>
    /\ future_idx = <<>>
    /\ tg_results = <<>>
    /\ cursor = 0
    /\ handled = {}
    /\ exit_raised = "none"

\* ThreadGroup.use_pool, lines 66-69.
use_pool == max_workers # 0

\* StoredThread.run, lines 22-28, and Future.result, lines 111-114: what
\* the i-th call leaves behind, its return value or its exception.
stored(i) == IF fn_raises[i] THEN Raised(i) ELSE Returned(i)

\* Thread.is_alive, line 120.
is_alive(i) == fn_state[i] # "finished"

\* The calls a worker of the pool is running.
working == {i \in Calls : fn_state[i] = "running"}

\* ThreadGroup.__enter__, lines 71-76.
thread_group_enter ==
    /\ th_pc = "enter"
    /\ executor' = use_pool
    /\ th_pc' = "body"
    /\ UNCHANGED <<outside_threads, thread_args, submitted, fn_state,
                   threads, future_idx, tg_results, cursor, handled,
                   exit_raised>>

\* soonify's runner, lines 95-102: submit to the pool and number the
\* future, or start a thread and append it.
soonify ==
    /\ th_pc = "body"
    /\ submitted < calls
    /\ submitted' = submitted + 1
    /\ LET i == submitted + 1 IN
           IF executor
           THEN /\ fn_state' = [fn_state EXCEPT ![i] = "queued"]
                /\ future_idx' =
                       [c \in DOMAIN future_idx \cup {i} |->
                           IF c = i THEN Cardinality(DOMAIN future_idx)
                                    ELSE future_idx[c]]
                /\ UNCHANGED threads
           ELSE /\ fn_state' = [fn_state EXCEPT ![i] = "running"]
                /\ threads' = Append(threads, i)
                /\ UNCHANGED future_idx
    /\ UNCHANGED <<outside_threads, thread_args, th_pc, executor,
                   tg_results, cursor, handled, exit_raised>>

\* ThreadPoolExecutor: a free worker takes the oldest queued call.
worker_take(i) ==
    /\ fn_state[i] = "queued"
    /\ \A c \in Calls : c < i => fn_state[c] # "queued"
    /\ Cardinality(working) < max_workers
    /\ fn_state' = [fn_state EXCEPT ![i] = "running"]
    /\ UNCHANGED <<outside_threads, thread_args, th_pc, executor,
                   submitted, threads, future_idx, tg_results, cursor,
                   handled, exit_raised>>

\* The function of the i-th call returns or raises in its thread.
fn_end(i) ==
    /\ fn_state[i] = "running"
    /\ fn_state' = [fn_state EXCEPT ![i] = "finished"]
    /\ UNCHANGED <<outside_threads, thread_args, th_pc, executor,
                   submitted, threads, future_idx, tg_results, cursor,
                   handled, exit_raised>>

\* ThreadGroup.__exit__, lines 107-108 and 116-119: the block ends; with
\* futures the result list is preallocated, else the threads are joined.
thread_group_exit ==
    /\ th_pc = "body"
    /\ submitted = calls
    /\ IF DOMAIN future_idx # {}
       THEN /\ tg_results' = Repeat(NoneSlot, Cardinality(DOMAIN future_idx))
            /\ th_pc' = "as_completed"
            /\ UNCHANGED cursor
       ELSE /\ th_pc' = (IF threads = <<>> THEN "exited" ELSE "join")
            /\ cursor' = 1
            /\ UNCHANGED tg_results
    /\ UNCHANGED <<outside_threads, thread_args, executor, submitted,
                   fn_state, threads, future_idx, handled, exit_raised>>

\* The step of a loop over ThreadGroup._threads, lines 117 and 119.
loop_next(after) == IF cursor = Len(threads) THEN after ELSE th_pc

\* ThreadGroup.__exit__, line 118: t.join returns, the thread has ended.
join_ended ==
    /\ th_pc = "join"
    /\ ~is_alive(threads[cursor])
    /\ th_pc' = loop_next("collect")
    /\ cursor' = (IF cursor = Len(threads) THEN 1 ELSE cursor + 1)
    /\ UNCHANGED <<outside_threads, thread_args, executor, submitted,
                   fn_state, threads, future_idx, tg_results, handled,
                   exit_raised>>

\* ThreadGroup.__exit__, line 118: t.join returns, the time is up.
join_timeout ==
    /\ th_pc = "join"
    /\ has_timeout
    /\ is_alive(threads[cursor])
    /\ th_pc' = loop_next("collect")
    /\ cursor' = (IF cursor = Len(threads) THEN 1 ELSE cursor + 1)
    /\ UNCHANGED <<outside_threads, thread_args, executor, submitted,
                   fn_state, threads, future_idx, tg_results, handled,
                   exit_raised>>

\* ThreadGroup.__exit__, lines 119-127: TimeoutError for a thread that is
\* still alive, else what the thread stored; appended to the results.
collect ==
    /\ th_pc = "collect"
    /\ LET t == threads[cursor] IN
           tg_results' = Append(tg_results,
                                IF is_alive(t) THEN TimeoutError(t)
                                               ELSE stored(t))
    /\ th_pc' = loop_next("exited")
    /\ cursor' = cursor + 1
    /\ UNCHANGED <<outside_threads, thread_args, executor, submitted,
                   fn_state, threads, future_idx, handled, exit_raised>>

\* ThreadGroup.__exit__, lines 109-115: as_completed yields a finished
\* future; its result or exception goes to the slot of its number.
as_completed_next(i) ==
    /\ th_pc = "as_completed"
    /\ i \in DOMAIN future_idx
    /\ i \notin handled
    /\ fn_state[i] = "finished"
    /\ tg_results' = [tg_results EXCEPT ![future_idx[i] + 1] = stored(i)]
    /\ handled' = handled \cup {i}
    /\ th_pc' = (IF handled' = DOMAIN future_idx THEN "exited" ELSE th_pc)
    /\ UNCHANGED <<outside_threads, thread_args, executor, submitted,
                   fn_state, threads, future_idx, cursor, exit_raised>>

\* ThreadGroup.__exit__, line 109: the time is up while a future is still
\* pending; as_completed raises TimeoutError, which leaves __exit__.
as_completed_timeout ==
    /\ th_pc = "as_completed"
    /\ has_timeout
    /\ \E i \in DOMAIN future_idx : fn_state[i] # "finished"
    /\ exit_raised' = "TimeoutError"
    /\ th_pc' = "exited"
    /\ UNCHANGED <<outside_threads, thread_args, executor, submitted,
                   fn_state, threads, future_idx, tg_results, cursor,
                   handled>>

ThreadNext ==
    \/ thread_group_enter
    \/ soonify
    \/ \E i \in Calls : worker_take(i)
    \/ \E i \in Calls : fn_end(i)
    \/ thread_group_exit
    \/ join_ended
    \/ join_timeout
    \/ collect
    \/ \E i \in Calls : as_completed_next(i)
    \/ as_completed_timeout

SpecThreads == ThreadInit /\ [][ThreadNext]_vars

\* C19: after the block, results has one entry per soonify call and
\* results[i] is what the i-th call returned or raised, in both modes; in
\* thread mode a thread that was still alive after the timeout has
\* TimeoutError in its slot instead.
C19_ResultsInSubmissionOrder ==
    th_pc = "exited" =>
        /\ Len(tg_results) = calls
        /\ \A i \in 1 .. calls :
               \/ tg_results[i] = stored(i)
               \/ /\ ~use_pool
                  /\ has_timeout
                  /\ tg_results[i] = TimeoutError(i)

\* ---------------------------------------------- bulk_gather, further claims
\* C21: inside one task group no task is cut short by the failure of a
\* sibling: every started item ends by returning or raising by itself,
\* none ends cancelled.
C21_NoEarlyAbort ==
    \A i \in Items : status[i] # "cancelled"

\* The items that wait for a token of the limiter.
Waiting == {i \in Items : status[i] = "waiting"}

C23_WaveIsFullBuffer ==
    (chosen = "wave" /\ ~is_seq)
        => /\ (pc = "join" /\ next < coros)
                  => Cardinality(group) = batch_size
           /\ pc = "wave" => Len(todos) < batch_size

\* C24: for a generator source, under every strategy, the growable result
\* list has one slot per item taken from the source so far, the slot is
\* there before the item's task starts, and so every item handed to a
\* task group writes into an existing slot.
C24_GrowableLength ==
    (~is_seq /\ pc # "call")
        => /\ Len(results) = next
           /\ \A i \in Items : status[i] # "idle" => i < Len(results)

\* C24 witness: a generator of three items handed to one task group; the
\* list has three slots, one item has written its slot, one is running.
C24_Witness ==
    /\ ~is_seq
    /\ chosen \in {"unlimit", "limiter"}
    /\ Len(results) = 3
    /\ \E i, j \in Items :
           /\ status[i] = "done"
           /\ results[i + 1] = Val(i)
           /\ status[j] = "running"
           /\ results[j + 1] = None

\* C25: a token of the limiter is held exactly by the items that are
\* running their payload: it is given back when the item returns, raises
\* or is cancelled, and none is held when bulk_gather returns or raises.
C25_NoSlotLeak ==
    /\ borrowers = (IF chosen = "limiter" THEN Running ELSE {})
    /\ pc = "done" => borrowers = {}

\* C25 witness: a limited call has raised after one item returned, one
\* raised and one was cancelled; no token is held.
C25_Witness ==
    /\ chosen = "limiter"
    /\ outcome = "raised"
    /\ borrowers = {}
    /\ \E i, j, k \in Items :
           /\ status[i] = "done"
           /\ status[j] = "failed"
           /\ status[k] = "cancelled"

\* C26: under every strategy and for both kinds of source, the await of
\* an item begins at most once and its slot is written at most once; when
\* the call returns and no item failed, every item of the source was
\* started exactly once and every slot written exactly once.
C26_StartedAtMostOnce ==
    /\ \A i \in Items : starts[i] <= 1 /\ writes[i] <= starts[i]
    /\ \A i \in Items : i \notin Source => starts[i] = 0
    /\ (outcome = "returned" /\ Failed = {})
           => \A i \in Source : starts[i] = 1 /\ writes[i] = 1

\* C26 witness: a generator of three items in waves of two has returned
\* without a failure; every item was started once and wrote once.
C26_Witness ==
    /\ outcome = "returned"
    /\ chosen = "wave"
    /\ ~is_seq
    /\ coros = 3
    /\ Failed = {}
    /\ \A i \in Source : starts[i] = 1 /\ writes[i] = 1

\* The event loop runs a task that is ready, and an item that was started
\* ends by itself: a step that stays possible is eventually taken.
FairSpec == Spec /\ WF_vars(Next)

\* C27: when every started item eventually returns or raises, bulk_gather
\* eventually returns or raises, for every strategy, every batch_size and
\* both kinds of source.
C27_Terminates == <>(pc = "done")

\* C27 witness: a limited call with capacity 1 over three items, each of
\* which had to wait for the token, has returned.
C27_Witness ==
    /\ pc = "done"
    /\ outcome = "returned"
    /\ chosen = "limiter"
    /\ batch_size = 1
    /\ coros = 3
    /\ Failed = {}

\* C28: under the wave strategy, once an item of a wave has failed no
\* item of a later wave is ever started, whatever raises says; with
\* raises=False the call returns with the slot of every item that was
\* never dispatched left at None.
C28_NoWaveAfterFailure ==
    (chosen = "wave")
        => /\ \A i \in Failed : \A j \in Items : wave[j] <= wave[i]
           /\ Failed # {} =>
                  \A j \in Items : wave[j] = 0 => starts[j] = 0
           /\ (outcome = "returned" /\ Failed # {}) =>
                  /\ ~raises
                  /\ \A k \in 1 .. Len(ret) :
                         wave[k - 1] = 0 => ret[k] = None

\* C28 witness: three items in waves of one, raises=False; the first
\* returned, the second failed, the third was never started and its slot
\* is None in the tuple returned.
C28_Witness ==
    /\ chosen = "wave"
    /\ is_seq
    /\ ~raises
    /\ batch_size = 1
    /\ coros = 3
    /\ outcome = "returned"
    /\ status[0] = "done"
    /\ status[1] = "failed"
    /\ status[2] = "idle"
    /\ ret = <<Val(0), None, None>>

\* C29: the conflict is decided by comparing the values whenever limit is
\* not None: on a non-empty source limit=0 with batch_size > 0 ends in
\* ParamsError before any item is started, whereas limit=None, or
\* batch_size=0, never ends in ParamsError.
C29_FalsyLimitConflicts ==
    /\ (limit = <<0>> /\ arg_batch > 0 /\ ~EmptySequence)
           => /\ pc = "done" => outcome = "params_error"
              /\ pc \in {"call", "limit", "done"}
              /\ \A i \in Items : status[i] = "idle"
    /\ (limit = NoLimit \/ arg_batch = 0) => outcome # "params_error"

\* C29 witness: a generator of three items with limit=0 and batch_size=2
\* ended in ParamsError.
C29_Witness ==
    /\ limit = <<0>>
    /\ arg_batch = 2
    /\ ~is_seq
    /\ coros = 3
    /\ outcome = "params_error"

\* ---------------------------------------------- start_tasks, further claims
\* The supplied tasks that raised.
FailedTasks == {t \in Tasks : task_state[t] = "failed"}

\* C30: when a supplied task raises while the guarded block is executing,
\* the scope of the task group is cancelled in the same step, the guarded
\* block is not interrupted and can still run to its end, and the failure
\* reaches the caller only when the statement is left.
C30_FailureWaitsForExit ==
    /\ FailedTasks # {} => (tg_cancel_called /\ body_end # "cancelled")
    /\ (FailedTasks # {} /\ host = "body")
           => /\ st_outcome = "pending"
              /\ ENABLED (body_return \/ body_raise)
    /\ st_outcome = "raised" => host = "exited"
    /\ (FailedTasks # {} /\ host = "exited") => st_outcome = "raised"

\* C30 witness: the guarded block is still executing after one supplied
\* task raised and its sibling was cancelled.
C30_Witness ==
    /\ host = "body"
    /\ ~ext_cancel_called
    /\ \E t, u \in Supplied :
           /\ task_state[t] = "failed"
           /\ task_state[u] = "cancelled"
=============================================================================
